---- MODULE Spec2Model ----
(***************************************************************************)
(* Duplicate-block detector of scripts/find_dups.py: find_duplicates.      *)
(*                                                                         *)
(* Lines are the normalized strings load_files hands to find_duplicates.   *)
(* File indices and line offsets are 0-based as in the Python code; TLA+   *)
(* sequences are 1-based, so line k of a list `norms` is norms[k + 1].     *)
(***************************************************************************)
EXTENDS Integers, Sequences, FiniteSets, TLC

\* ------------------------------------------------------------------ bounds

\* total number of lines of a generated corpus
MaxLines == 4
\* largest --min-lines tried
MaxMinLines == 2
\* largest --max-pairs-per-hash tried
MaxPairsPerHash == 4

\* ------------------------------------------------------------------ inputs

\* normalized lines the generated corpora are built from
Vocabulary == {"}", "x", "y"}

\* the lines of the vocabulary and of the worked example that hold a character
\* of [A-Za-z0-9_]
WordLines == {"x", "y", "fn f() {", "let x = 1;", "return x;"}

is_significant(line) == line \in WordLines

\* worked example: a four line block, and the same block after a blank line
ExampleA == <<"fn f() {", "let x = 1;", "return x;", "}">>
ExampleB == <<"">> \o ExampleA
ExampleCorpus == <<ExampleA, ExampleB>>

FilesUpTo(n) == UNION {[1..k -> Vocabulary] : k \in 1..n}

\* every list of non-empty files holding at most n lines in all
RECURSIVE CorporaUpTo(_)
CorporaUpTo(n) ==
    {<< >>} \cup UNION {{<<f>> \o c : c \in CorporaUpTo(n - Len(f))} : f \in FilesUpTo(n)}

VARIABLES
    file_lines,          \* list of files, each the list of its normalized lines
    min_lines,
    min_significant,
    max_pairs_per_hash,
    include_same_file,
    pc,                  \* "hash", "pairs", "done"
    file_idx,            \* next file of the hashing loop
    windows,             \* dict digest -> occurrences, in insertion order
    finished,            \* buckets whose pair loops have ended
    pos,                 \* per bucket, the loop indices <<i, j>> of its next pair
    matches,
    seen,
    expanded,            \* history: the pairs <<a_idx, a_start, b_idx, b_start>> expanded so far
    produced             \* history: matches as it stood before the final sort

params == <<file_lines, min_lines, min_significant, max_pairs_per_hash, include_same_file>>
vars == <<file_lines, min_lines, min_significant, max_pairs_per_hash, include_same_file,
          pc, file_idx, windows, finished, pos, matches, seen, expanded, produced>>

\* ------------------------------------------------------------------ window hashing

\* sig_prefix[n]: number of significant lines among the first n
RECURSIVE sig_prefix(_, _)
sig_prefix(norms, n) ==
    IF n = 0 THEN 0
    ELSE sig_prefix(norms, n - 1) + (IF is_significant(norms[n]) THEN 1 ELSE 0)

sig_count(norms, start) == sig_prefix(norms, start + min_lines) - sig_prefix(norms, start)

\* norms[start : start + min_lines]
Window(norms, start) == SubSeq(norms, start + 1, start + min_lines)

\* sha1 of the joined window. Lines hold no line break, so the join is
\* injective, and the digest is taken to be collision free: it is the window.
Sha1Collides(window) == << >>
sha1(window) == window

\* windows.setdefault(digest, []).append(occ)
setdefault_append(w, digest, occ) ==
    IF \E k \in 1..Len(w) : w[k].digest = digest
    THEN [k \in 1..Len(w) |->
            IF w[k].digest = digest THEN [w[k] EXCEPT !.occs = Append(@, occ)] ELSE w[k]]
    ELSE Append(w, [digest |-> digest, occs |-> <<occ>>])

\* the loop over the start offsets of file f, from `start` on
RECURSIVE HashFrom(_, _, _)
HashFrom(w, f, start) ==
    LET norms == file_lines[f + 1] IN
    IF start >= Len(norms) - min_lines + 1 THEN w
    ELSE IF sig_count(norms, start) < min_significant THEN HashFrom(w, f, start + 1)
    ELSE HashFrom(setdefault_append(w, sha1(Window(norms, start)), <<f, start>>), f, start + 1)

\* ------------------------------------------------------------------ pair expansion

\* occs[:max_pairs_per_hash] when the bucket is longer than the cap
UncappedOccs(occs) == occs
CappedOccs(occs) ==
    IF Len(occs) > max_pairs_per_hash THEN SubSeq(occs, 1, max_pairs_per_hash) ELSE occs

NoExpandBack(a_lines, b_lines, start_a, start_b) == <<start_a, start_b>>

RECURSIVE ExpandBack(_, _, _, _)
ExpandBack(a_lines, b_lines, start_a, start_b) ==
    IF start_a > 0 /\ start_b > 0 /\ a_lines[start_a] = b_lines[start_b]
    THEN ExpandBack(a_lines, b_lines, start_a - 1, start_b - 1)
    ELSE <<start_a, start_b>>

NoExpandForward(a_lines, b_lines, end_a, end_b) == <<end_a, end_b>>

RECURSIVE ExpandForward(_, _, _, _)
ExpandForward(a_lines, b_lines, end_a, end_b) ==
    IF end_a < Len(a_lines) /\ end_b < Len(b_lines) /\ a_lines[end_a + 1] = b_lines[end_b + 1]
    THEN ExpandForward(a_lines, b_lines, end_a + 1, end_b + 1)
    ELSE <<end_a, end_b>>

\* the match tuple (length, a_idx, start_a, b_idx, start_b) of a window pair
ExpandPair(a, b) ==
    LET a_lines == file_lines[a[1] + 1]
        b_lines == file_lines[b[1] + 1]
        starts  == ExpandBack(a_lines, b_lines, a[2], b[2])
        ends    == ExpandForward(a_lines, b_lines, a[2] + min_lines, b[2] + min_lines)
    IN  <<ends[1] - starts[1], a[1], starts[1], b[1], starts[2]>>

\* key = (a_idx, start_a, b_idx, start_b, length)
KeyOf(m) == <<m[2], m[3], m[4], m[5], m[1]>>

Abs(n) == IF n < 0 THEN -n ELSE n

SkipSameFilePair(a, b) == ~include_same_file /\ a[1] = b[1]
NeverOverlapPair(a, b) == FALSE
SkipOverlapPair(a, b) == a[1] = b[1] /\ Abs(a[2] - b[2]) < min_lines

\* `key in seen`
NeverSeen(key) == FALSE
AlreadySeen(key) == key \in seen

\* the inner loop ends after its first pair
NextPosOnce(p, n) == <<p[1] + 1, p[1] + 2>>

\* the loop indices after <<i, j>> in `for i ... for j in range(i + 1, n)`
NextPos(p, n) == IF p[2] + 1 < n THEN <<p[1], p[2] + 1>> ELSE <<p[1] + 1, p[1] + 2>>

\* the pair loops have a pair left at p
HasPair(p, n) == p[2] < n

\* ------------------------------------------------------------------ final sort

\* s < t on tuples, as Python compares them
RECURSIVE TupleLessFrom(_, _, _)
TupleLessFrom(s, t, k) ==
    IF k > Len(s) \/ k > Len(t) THEN Len(s) < Len(t)
    ELSE IF s[k] # t[k] THEN s[k] < t[k]
    ELSE TupleLessFrom(s, t, k + 1)

LengthLess(s, t) == s[1] < t[1]
TupleLess(s, t) == TupleLessFrom(s, t, 1)

\* list.sort(reverse=True): descending, equal elements keep their order
RECURSIVE InsertDesc(_, _)
InsertDesc(sorted, m) ==
    IF sorted = << >> THEN <<m>>
    ELSE IF TupleLess(Head(sorted), m) THEN <<m>> \o sorted
    ELSE <<Head(sorted)>> \o InsertDesc(Tail(sorted), m)

RECURSIVE SortReverse(_)
SortReverse(list) ==
    IF list = << >> THEN << >>
    ELSE InsertDesc(SortReverse(SubSeq(list, 1, Len(list) - 1)), list[Len(list)])

\* ------------------------------------------------------------------ the run

Params ==
    /\ min_lines \in 1..MaxMinLines
    /\ min_significant \in 0..min_lines
    /\ max_pairs_per_hash \in 1..MaxPairsPerHash
    /\ include_same_file \in BOOLEAN

Init ==
    /\ \/ file_lines \in CorporaUpTo(MaxLines) /\ Params
       \/ /\ file_lines = ExampleCorpus
          /\ min_lines = 3
          /\ min_significant = 2
          /\ max_pairs_per_hash \in 1..MaxPairsPerHash
          /\ include_same_file \in BOOLEAN
    /\ pc = "hash"
    /\ file_idx = 0
    /\ windows = << >>
    /\ finished = {}
    /\ pos = << >>
    /\ matches = << >>
    /\ seen = {}
    /\ expanded = {}
    /\ produced = << >>

\* `if total < min_lines: continue`
SkipShortFile ==
    /\ pc = "hash"
    /\ file_idx < Len(file_lines)
    /\ Len(file_lines[file_idx + 1]) < min_lines
    /\ file_idx' = file_idx + 1
    /\ UNCHANGED <<params, pc, windows, finished, pos, matches, seen, expanded, produced>>

\* one file's windows enter the buckets
HashFile ==
    /\ pc = "hash"
    /\ file_idx < Len(file_lines)
    /\ Len(file_lines[file_idx + 1]) >= min_lines
    /\ windows' = HashFrom(windows, file_idx, 0)
    /\ file_idx' = file_idx + 1
    /\ UNCHANGED <<params, pc, finished, pos, matches, seen, expanded, produced>>

\* the hashing loop ends; the bucket loop starts
StartPairs ==
    /\ pc = "hash"
    /\ file_idx = Len(file_lines)
    /\ pc' = "pairs"
    /\ pos' = [b \in 1..Len(windows) |-> <<0, 1>>]
    /\ UNCHANGED <<params, file_idx, windows, finished, matches, seen, expanded, produced>>

Buckets == 1..Len(windows)
Unfinished == Buckets \ finished

\* the bucket `for occs in windows.values()` is at: dicts iterate in insertion order
CurrentBucket == IF Unfinished = {} THEN {} ELSE {CHOOSE b \in Unfinished : \A c \in Unfinished : b <= c}

Occs(b) == CappedOccs(windows[b].occs)

\* pos and finished after the pair at pos[b] has been handled
Advance(b) ==
    LET p == NextPos(pos[b], Len(Occs(b))) IN
    /\ pos' = [pos EXCEPT ![b] = p]
    /\ finished' = IF HasPair(p, Len(Occs(b))) THEN finished ELSE finished \cup {b}

\* `if len(occs) < 2: continue`
SkipBucket(b) ==
    /\ pc = "pairs"
    /\ b \notin finished
    /\ Len(windows[b].occs) < 2
    /\ finished' = finished \cup {b}
    /\ UNCHANGED <<params, pc, file_idx, windows, pos, matches, seen, expanded, produced>>

\* the capped bucket holds a single occurrence: the pair loops do not run
NoPairs(b) ==
    /\ pc = "pairs"
    /\ b \notin finished
    /\ Len(windows[b].occs) >= 2
    /\ ~HasPair(pos[b], Len(Occs(b)))
    /\ finished' = finished \cup {b}
    /\ UNCHANGED <<params, pc, file_idx, windows, pos, matches, seen, expanded, produced>>

PairReady(b) ==
    /\ pc = "pairs"
    /\ b \notin finished
    /\ Len(windows[b].occs) >= 2
    /\ HasPair(pos[b], Len(Occs(b)))

OccA(b) == Occs(b)[pos[b][1] + 1]
OccB(b) == Occs(b)[pos[b][2] + 1]

\* `if not include_same_file and a_idx == b_idx: continue`
SkipSameFile(b) ==
    /\ PairReady(b)
    /\ SkipSameFilePair(OccA(b), OccB(b))
    /\ Advance(b)
    /\ UNCHANGED <<params, pc, file_idx, windows, matches, seen, expanded, produced>>

\* `if a_idx == b_idx and abs(a_start - b_start) < min_lines: continue`
SkipOverlap(b) ==
    /\ PairReady(b)
    /\ ~SkipSameFilePair(OccA(b), OccB(b))
    /\ SkipOverlapPair(OccA(b), OccB(b))
    /\ Advance(b)
    /\ UNCHANGED <<params, pc, file_idx, windows, matches, seen, expanded, produced>>

PairExpands(b) ==
    /\ PairReady(b)
    /\ ~SkipSameFilePair(OccA(b), OccB(b))
    /\ ~SkipOverlapPair(OccA(b), OccB(b))

\* the pair is expanded and its span is new
ExpandNew(b) ==
    /\ PairExpands(b)
    /\ LET m == ExpandPair(OccA(b), OccB(b)) IN
        /\ ~AlreadySeen(KeyOf(m))
        /\ seen' = seen \cup {KeyOf(m)}
        /\ matches' = Append(matches, m)
    /\ expanded' = expanded \cup {OccA(b) \o OccB(b)}
    /\ Advance(b)
    /\ UNCHANGED <<params, pc, file_idx, windows, produced>>

\* the pair is expanded and its span was reported before: `if key in seen: continue`
ExpandSeen(b) ==
    /\ PairExpands(b)
    /\ AlreadySeen(KeyOf(ExpandPair(OccA(b), OccB(b))))
    /\ expanded' = expanded \cup {OccA(b) \o OccB(b)}
    /\ Advance(b)
    /\ UNCHANGED <<params, pc, file_idx, windows, matches, seen, produced>>

\* matches.sort(reverse=True); return matches
Sort ==
    /\ pc = "pairs"
    /\ finished = Buckets
    /\ produced' = matches
    /\ matches' = SortReverse(matches)
    /\ pc' = "done"
    /\ UNCHANGED <<params, file_idx, windows, finished, pos, seen, expanded>>

Next ==
    \/ SkipShortFile
    \/ HashFile
    \/ StartPairs
    \/ \E b \in CurrentBucket : SkipBucket(b)
    \/ \E b \in CurrentBucket : NoPairs(b)
    \/ \E b \in CurrentBucket : SkipSameFile(b)
    \/ \E b \in CurrentBucket : SkipOverlap(b)
    \/ \E b \in CurrentBucket : ExpandNew(b)
    \/ \E b \in CurrentBucket : ExpandSeen(b)
    \/ Sort

Spec == Init /\ [][Next]_vars

\* the buckets taken in any order, their pair loops interleaved
NextAnyOrder ==
    \/ SkipShortFile
    \/ HashFile
    \/ StartPairs
    \/ \E b \in Unfinished : SkipBucket(b)
    \/ \E b \in Unfinished : NoPairs(b)
    \/ \E b \in Unfinished : SkipSameFile(b)
    \/ \E b \in Unfinished : SkipOverlap(b)
    \/ \E b \in Unfinished : ExpandNew(b)
    \/ \E b \in Unfinished : ExpandSeen(b)
    \/ Sort

SpecAnyOrder == Init /\ [][NextAnyOrder]_vars

\* ------------------------------------------------------------------ find_duplicates as a function

\* the pair loops of one bucket, from loop indices p on, appending to acc
RECURSIVE PairLoop(_, _, _)
PairLoop(acc, occs, p) ==
    IF ~HasPair(p, Len(occs)) THEN acc
    ELSE LET a == occs[p[1] + 1]
             b == occs[p[2] + 1]
             m == ExpandPair(a, b)
             skip == \/ SkipSameFilePair(a, b)
                     \/ SkipOverlapPair(a, b)
                     \/ \E k \in 1..Len(acc) : acc[k] = m
         IN  PairLoop(IF skip THEN acc ELSE Append(acc, m), occs, NextPos(p, Len(occs)))

\* the bucket loop in the dict's insertion order, from bucket b on
RECURSIVE BucketLoop(_, _)
BucketLoop(acc, b) ==
    IF b > Len(windows) THEN acc
    ELSE BucketLoop(IF Len(windows[b].occs) < 2 THEN acc
                    ELSE PairLoop(acc, CappedOccs(windows[b].occs), <<0, 1>>), b + 1)

\* what find_duplicates returns for the buckets in `windows`
find_duplicates == SortReverse(BucketLoop(<< >>, 1))

\* ------------------------------------------------------------------ properties

Returned == pc = "done"
Spans == {matches[k] : k \in 1..Len(matches)}
LinesOf(f) == file_lines[f + 1]

\* the line at 0-based offset k of file f
LineAt(f, k) == file_lines[f + 1][k + 1]

\* every window <<file, start>> of min_lines lines of the corpus
AllWindows ==
    UNION {{<<f, s>> : s \in 0..(Len(LinesOf(f)) - min_lines)} : f \in 0..(Len(file_lines) - 1)}

WindowText(w) == SubSeq(LinesOf(w[1]), w[2] + 1, w[2] + min_lines)

Significant(w) ==
    Cardinality({k \in w[2]..(w[2] + min_lines - 1) : LineAt(w[1], k) \in WordLines}) >= min_significant

\* discovery order: file index ascending, then start offset ascending
Earlier(v, w) == v[1] < w[1] \/ (v[1] = w[1] /\ v[2] < w[2])

\* w is among the first max_pairs_per_hash occurrences of its text
WithinCap(w) ==
    Cardinality({v \in AllWindows :
        Significant(v) /\ WindowText(v) = WindowText(w) /\ Earlier(v, w)}) < max_pairs_per_hash

\* C1: maximality. The lines before the two starts of a span differ when both
\* exist, and so do the lines after its two ends.
C1_Maximality ==
    \A m \in Spans :
        /\ (m[3] > 0 /\ m[5] > 0) => LineAt(m[2], m[3] - 1) # LineAt(m[4], m[5] - 1)
        /\ (m[3] + m[1] < Len(LinesOf(m[2])) /\ m[5] + m[1] < Len(LinesOf(m[4])))
              => LineAt(m[2], m[3] + m[1]) # LineAt(m[4], m[5] + m[1])

\* a returned span with a line before both starts and a line after both ends
C1_Witness ==
    /\ Returned
    /\ \E m \in Spans :
        /\ m[3] > 0 /\ m[5] > 0
        /\ m[3] + m[1] < Len(LinesOf(m[2])) /\ m[5] + m[1] < Len(LinesOf(m[4]))

\* C2: a span is at least min_lines long, its two ranges lie inside their
\* files, and the ranges hold the same lines position by position.
C2_SpanIsDuplicate ==
    \A m \in Spans :
        /\ m[1] >= min_lines
        /\ m[3] >= 0 /\ m[3] + m[1] <= Len(LinesOf(m[2]))
        /\ m[5] >= 0 /\ m[5] + m[1] <= Len(LinesOf(m[4]))
        /\ \A d \in 0..(m[1] - 1) : LineAt(m[2], m[3] + d) = LineAt(m[4], m[5] + d)

\* a returned span between two files, longer than the window it grew from
C2_Witness == Returned /\ \E m \in Spans : m[1] > min_lines /\ m[2] # m[4]

\* C3: no span links a file to itself at starts closer than min_lines.
C3_NoSelfOverlap ==
    \A m \in Spans : ~(m[2] = m[4] /\ Abs(m[3] - m[5]) < min_lines)

\* a returned span inside one file whose starts moved back from the window starts
C3_Witness ==
    /\ Returned
    /\ \E m \in Spans : \E p \in expanded :
        /\ m[2] = m[4]
        /\ ExpandPair(<<p[1], p[2]>>, <<p[3], p[4]>>) = m
        /\ m[3] < p[2]

\* the two windows of q lie inside the span of p, on the same files and at the
\* same alignment
SameRun(p, q) ==
    LET m == ExpandPair(<<p[1], p[2]>>, <<p[3], p[4]>>) IN
    /\ p[1] = q[1] /\ p[3] = q[3]
    /\ p[2] - p[4] = q[2] - q[4]
    /\ m[3] <= q[2] /\ q[2] + min_lines <= m[3] + m[1]

\* C4: no tuple is reported twice; expanded pairs at one alignment of one run
\* give one tuple, reported once; the worked example gives the one span of
\* length 4 at A:1 and B:2 (offsets 0 and 1).
C4_NoDuplicateReports ==
    /\ \A i, j \in 1..Len(matches) : i # j => matches[i] # matches[j]
    /\ \A p, q \in expanded :
        SameRun(p, q) =>
            /\ ExpandPair(<<p[1], p[2]>>, <<p[3], p[4]>>) = ExpandPair(<<q[1], q[2]>>, <<q[3], q[4]>>)
            /\ Cardinality({k \in 1..Len(matches) :
                   matches[k] = ExpandPair(<<p[1], p[2]>>, <<p[3], p[4]>>)}) = 1
    /\ (Returned /\ file_lines = ExampleCorpus /\ max_pairs_per_hash >= 2)
          => matches = << <<4, 0, 0, 1, 1>> >>

\* the worked example returned, its two window pairs both expanded
C4_Witness ==
    /\ Returned
    /\ file_lines = ExampleCorpus
    /\ expanded = {<<0, 0, 1, 1>>, <<0, 1, 1, 2>>}
    /\ Len(matches) = 1

\* the place of span m in the order of production
ProducedAt(m) == CHOOSE k \in 1..Len(produced) : produced[k] = m

\* C5 as stated: descending length, equal lengths in the order of production.
C5_StableOnLength ==
    Returned =>
        \A i, j \in 1..Len(matches) :
            i < j =>
                /\ matches[i][1] >= matches[j][1]
                /\ matches[i][1] = matches[j][1] => ProducedAt(matches[i]) < ProducedAt(matches[j])

\* C5 amended: the returned sequence holds the produced spans in strictly
\* descending order of the whole tuple (length, file_a, start_a, file_b,
\* start_b): descending length, equal lengths by descending file_a, then
\* start_a, file_b, start_b.
C5_SortedByTuple ==
    Returned =>
        /\ Spans = {produced[k] : k \in 1..Len(produced)}
        /\ Len(matches) = Len(produced)
        /\ \A i, j \in 1..Len(matches) :
            i < j =>
                /\ matches[i][1] >= matches[j][1]
                /\ \E k \in 1..5 :
                    /\ \A h \in 1..(k - 1) : matches[i][h] = matches[j][h]
                    /\ matches[i][k] > matches[j][k]

\* two spans of one length returned in the reverse of their production order
C5_Witness ==
    /\ Returned
    /\ \E i, j \in 1..Len(matches) :
        /\ i < j
        /\ matches[i][1] = matches[j][1]
        /\ ProducedAt(matches[i]) > ProducedAt(matches[j])

\* both ranges of span m lie inside the ranges of span n
Contained(m, n) ==
    /\ m[2] = n[2] /\ m[4] = n[4]
    /\ n[3] <= m[3] /\ m[3] + m[1] <= n[3] + n[1]
    /\ n[5] <= m[5] /\ m[5] + m[1] <= n[5] + n[1]

\* C6 as stated: no returned span is contained in another one.
C6_NoContainedSpan ==
    \A m, n \in Spans : (m # n) => ~Contained(m, n)

\* C6 amended: no returned span is contained in another one at the same
\* alignment (start_a - start_b); spans contained at another alignment stay.
C6_NoContainedSpanSameAlignment ==
    \A m, n \in Spans :
        (m # n /\ m[3] - m[5] = n[3] - n[5]) => ~Contained(m, n)

\* a second window pair of a run was expanded and dropped, next to another span
C6_Witness ==
    /\ Returned
    /\ Len(matches) >= 2
    /\ \E p, q \in expanded : p # q /\ SameRun(p, q)

\* C7: the pairs expanded are pairs of the first max_pairs_per_hash
\* occurrences of a bucket, the occurrences stand in discovery order, every
\* span comes from such a pair, and a cap of 1 leaves no pair and no span.
C7_OccurrenceCap ==
    /\ \A b \in 1..Len(windows) :
        \A i, j \in 1..Len(windows[b].occs) :
            i < j => Earlier(windows[b].occs[i], windows[b].occs[j])
    /\ \A p \in expanded :
        \E b \in 1..Len(windows) :
            \E i, j \in 1..Len(windows[b].occs) :
                /\ i < j /\ j <= max_pairs_per_hash
                /\ windows[b].occs[i] = <<p[1], p[2]>>
                /\ windows[b].occs[j] = <<p[3], p[4]>>
    /\ \A m \in Spans :
        \E p \in expanded : ExpandPair(<<p[1], p[2]>>, <<p[3], p[4]>>) = m
    /\ max_pairs_per_hash = 1 => (expanded = {} /\ matches = << >>)

\* a bucket longer than a cap of at least 2 was cut and gave a span
C7_Witness ==
    /\ Returned
    /\ max_pairs_per_hash >= 2
    /\ \E b \in 1..Len(windows) :
        /\ Len(windows[b].occs) > max_pairs_per_hash
        /\ \E p \in expanded : <<p[1], p[2]>> = windows[b].occs[1]

\* C8: whatever the order of the buckets and the interleaving of their pair
\* loops, the returned sequence is the one the insertion order gives.
C8_OrderIndependent == Returned => matches = find_duplicates

\* a run that produced its spans in another order than the insertion order gives
C8_Witness ==
    /\ Returned
    /\ Len(matches) >= 2
    /\ produced # BucketLoop(<< >>, 1)

\* the pairs of bucket b expanded so far
ExpandedOf(b) ==
    {p \in expanded : \E i \in 1..Len(windows[b].occs) : windows[b].occs[i] = <<p[1], p[2]>>}

\* C9: no bucket has more than max_pairs_per_hash pairs expanded.
C9_PairComparisonsBounded ==
    pc # "hash" =>
        \A b \in 1..Len(windows) : Cardinality(ExpandedOf(b)) <= max_pairs_per_hash

\* the span m holds the windows v and w at the same offset from its starts
Holds(m, v, w) ==
    /\ m[2] = v[1] /\ m[4] = w[1]
    /\ m[3] <= v[2] /\ v[2] + min_lines <= m[3] + m[1]
    /\ m[5] <= w[2] /\ w[2] + min_lines <= m[5] + m[1]
    /\ v[2] - m[3] = w[2] - m[5]

\* v and w are two windows the pair loops must expand
Expandable(v, w) ==
    /\ v # w
    /\ WindowText(v) = WindowText(w)
    /\ Significant(v) /\ Significant(w)
    /\ WithinCap(v) /\ WithinCap(w)
    /\ v[1] # w[1] \/ (include_same_file /\ Abs(v[2] - w[2]) >= min_lines)

\* C10: two equal windows that pass the filter, stand within the cap and are
\* not skipped lie in one returned span, at the same offset from its starts.
C10_Complete ==
    Returned =>
        \A v, w \in AllWindows :
            Expandable(v, w) => \E m \in Spans : Holds(m, v, w) \/ Holds(m, w, v)

\* two such windows of one file, found in a span that grew beyond them
C10_Witness ==
    /\ Returned
    /\ \E v, w \in AllWindows :
        /\ Expandable(v, w)
        /\ v[1] = w[1]
        /\ \E m \in Spans : Holds(m, v, w) /\ m[1] > min_lines

====
